---------------------------- MODULE Spec2Model ----------------------------
(***************************************************************************)
(* Face-match attendance workflow of the student attendance application    *)
(* (src/index.tsx): the attendance recorder (recordAttendance run inside   *)
(* apiCall), the recognition session of AttendancePage (detection loop,    *)
(* cooldown, processing guard, countdown / apiCall / settle timers) and    *)
(* the registration quality gate of FaceRegistrationPage.                  *)
(*                                                                         *)
(* Time.  Date.now() is the variable now (milliseconds).  new Date() as    *)
(* read by recordAttendance is the variable wall: a day number (the        *)
(* toISOString date, only ever compared for equality) and a minute of the  *)
(* day, which TimeStr formats as the zero padded "HH:MM" string that       *)
(* toLocaleTimeString('th-TH', 2-digit) produces.  Strings are sequences   *)
(* of character codes and are compared as JavaScript compares strings.     *)
(***************************************************************************)
EXTENDS Integers, Sequences, FiniteSets, TLC

VARIABLES
    now,             \* Date.now(), in milliseconds
    wall,            \* new Date(): [date, tod]
    mockAttendance,  \* the attendance store (newest first)
    mockSettings,    \* [lateTime, checkOutTime]
    mockStudents,    \* the student directory: [faceRegistered, faceDescriptor, status] per id
    nextStudentId,   \* the id the next student added gets
    lastCommit,      \* history: the last run of recordAttendance
    visits,          \* the AttendancePage instances created so far
    hist,            \* history of the recognition sessions
    scen,            \* the bounds of the scenario being explored
    reg              \* the FaceRegistrationPage instance

vars == <<now, wall, mockAttendance, mockSettings, mockStudents, nextStudentId, lastCommit,
          visits, hist, scen, reg>>

----------------------------------------------------------------------------
(* Bounds of the model *)

\* day numbers 1..MaxDate; 2 is the day the application is loaded
MaxDate == 3
\* commits that reach the recorder in one run of SpecRecorder
MaxCommits == 3
\* frames the registration loop samples in one run
MaxRegFrames == 3
\* clicks on the capture button in one run
MaxCaptures == 2
\* faces in one frame
MaxFaces == 2
\* frames, over one run, in which the detector finds a face
MaxFrames == 2
\* the clock runs to HorizonShort in Spec, to HorizonRevisit in SpecRevisit
\* and to HorizonLong in SpecCooldown
HorizonShort == 3600
HorizonRevisit == 3400
HorizonLong == 8800

\* students with a registered face (ids of initialStudents)
Students == {1, 2}
\* the ids of the directory, 1..MaxStudents; 3 has no face registered
MaxStudents == 3
StudentIds == 1..MaxStudents
Dates == 1..MaxDate
Modes == {"checkin", "checkout"}

\* minutes of the day the wall clock is sampled at
TimeSamples == {510, 511, 959, 960}
\* values of the lateTime / checkOutTime inputs of the settings form
LateTimes == {510, 540}
CheckOutTimes == {960}

----------------------------------------------------------------------------
(* Strings *)

Colon == 10

\* toLocaleTimeString('th-TH', {hour: '2-digit', minute: '2-digit'})
TimeStr(tod) ==
    << tod \div 600, (tod \div 60) % 10, Colon, (tod % 60) \div 10, tod % 10 >>

RECURSIVE StrLess(_, _)
\* a < b on JavaScript strings
StrLess(a, b) ==
    IF b = << >> THEN FALSE
    ELSE IF a = << >> THEN TRUE
    ELSE IF Head(a) # Head(b) THEN Head(a) < Head(b)
    ELSE StrLess(Tail(a), Tail(b))

StrGreater(a, b) == StrLess(b, a)

Null == << >>

----------------------------------------------------------------------------
(* The attendance recorder *)

initialSettings == [lateTime |-> TimeStr(510), checkOutTime |-> TimeStr(960)]

initialAttendance ==
    << [student_id |-> 1, date |-> 1, checkIn |-> TimeStr(485),
        checkOut |-> TimeStr(965), status |-> "Present"],
       [student_id |-> 2, date |-> 2, checkIn |-> TimeStr(520),
        checkOut |-> Null, status |-> "Late"],
       [student_id |-> 1, date |-> 2, checkIn |-> TimeStr(495),
        checkOut |-> Null, status |-> "Present"] >>

\* mockAttendance.findIndex(a => a.student_id === id && a.date === today); 0 for -1
findIndex(att, id, today) ==
    LET hits == {i \in DOMAIN att : att[i].student_id = id /\ att[i].date = today}
    IN  IF hits = {} THEN 0 ELSE CHOOSE i \in hits : \A j \in hits : i <= j

\* mutant: the late test written with >=
isLateOrEqual(timeNow, lateTime) == ~StrLess(timeNow, lateTime)

\* timeNow > mockSettings.lateTime
isLate(timeNow, lateTime) == StrGreater(timeNow, lateTime)

\* mutant: the early test written with <=
isEarlyOrEqual(timeNow, checkOutTime) == ~StrGreater(timeNow, checkOutTime)

\* timeNow < mockSettings.checkOutTime
isEarly(timeNow, checkOutTime) == StrLess(timeNow, checkOutTime)

\* let status = 'Present'; then the two mode tests
commitStatus(mode, timeNow, settings) ==
    IF mode = "checkin" /\ isLate(timeNow, settings.lateTime) THEN "Late"
    ELSE IF mode = "checkout" /\ isEarly(timeNow, settings.checkOutTime) THEN "Early Leave"
    ELSE "Present"

\* mutant: the Late guard of the checkout branch left out
checkoutStoredStatusOverwrite(old, status) == status

\* the status the checkout branch leaves in the record
checkoutStoredStatus(old, status) ==
    IF old # "Late" THEN status ELSE old

NoData == [time |-> Null, status |-> ""]

\* mutant: the check-in branch without its existing-record test
checkinBranchNoDup(att, idx, id, today, timeNow, status) ==
    [att |-> << [student_id |-> id, date |-> today, checkIn |-> timeNow,
                 checkOut |-> Null, status |-> status] >> \o att,
     error |-> << >>,
     data |-> [time |-> timeNow, status |-> status]]

\* if (mode === 'checkin'): reject a second record for the day, else unshift one
checkinBranch(att, idx, id, today, timeNow, status) ==
    IF idx # 0
    THEN [att |-> att, error |-> <<"AlreadyCheckedIn", att[idx].checkIn>>, data |-> NoData]
    ELSE [att |-> << [student_id |-> id, date |-> today, checkIn |-> timeNow,
                      checkOut |-> Null, status |-> status] >> \o att,
          error |-> << >>,
          data |-> [time |-> timeNow, status |-> status]]

\* mutant: the check-out also stamps checkIn of the record
checkoutBranchTouchesCheckIn(att, idx, timeNow, status) ==
    IF idx # 0
    THEN [att |-> [att EXCEPT ![idx].checkOut = timeNow, ![idx].checkIn = timeNow,
                              ![idx].status = checkoutStoredStatus(att[idx].status, status)],
          error |-> << >>,
          data |-> [time |-> timeNow, status |-> status]]
    ELSE [att |-> att, error |-> <<"NoCheckInFound">>, data |-> NoData]

\* mutant: a check-out of a record that already has a checkOut is rejected
checkoutBranchRejectsSecond(att, idx, timeNow, status) ==
    IF idx # 0 /\ att[idx].checkOut = Null
    THEN [att |-> [att EXCEPT ![idx].checkOut = timeNow,
                              ![idx].status = checkoutStoredStatus(att[idx].status, status)],
          error |-> << >>,
          data |-> [time |-> timeNow, status |-> status]]
    ELSE [att |-> att, error |-> <<"NoCheckInFound">>, data |-> NoData]

\* else: write checkOut (and the status, unless Late) into the day's record
checkoutBranch(att, idx, timeNow, status) ==
    IF idx # 0
    THEN [att |-> [att EXCEPT ![idx].checkOut = timeNow,
                              ![idx].status = checkoutStoredStatus(att[idx].status, status)],
          error |-> << >>,
          data |-> [time |-> timeNow, status |-> status]]
    ELSE [att |-> att, error |-> <<"NoCheckInFound">>, data |-> NoData]

\* recordAttendance: the new store and the value it returns
recordAttendance(att, settings, w, id, mode) ==
    LET today   == w.date
        timeNow == TimeStr(w.tod)
        idx     == findIndex(att, id, today)
        status  == commitStatus(mode, timeNow, settings)
    IN  IF mode = "checkin"
        THEN checkinBranch(att, idx, id, today, timeNow, status)
        ELSE checkoutBranch(att, idx, timeNow, status)

\* mutant: the error test of apiCall left out
apiCallLosesError(result) ==
    [success |-> TRUE, message |-> << >>, data |-> result.data]

\* apiCall: what the promise resolves to for the callback's return value
apiCall(result) ==
    IF result.error # << >>
    THEN [success |-> FALSE, message |-> result.error, data |-> NoData]
    ELSE [success |-> TRUE, message |-> << >>, data |-> result.data]

NoRecord ==
    [student_id |-> 0, date |-> 0, checkIn |-> Null, checkOut |-> Null, status |-> ""]

\* lastCommit.old is the day's record the commit found (NoRecord if none)
NoCommit ==
    [seq |-> 0, student |-> 0, mode |-> "", old |-> NoRecord,
     response |-> [success |-> FALSE, message |-> << >>, data |-> NoData]]

\* the timer callback of apiCall(recordAttendance) for one student and mode
RunRecordAttendance(id, mode) ==
    LET r   == recordAttendance(mockAttendance, mockSettings, wall, id, mode)
        idx == findIndex(mockAttendance, id, wall.date)
    IN  /\ mockAttendance' = r.att
        /\ lastCommit' = [seq |-> lastCommit.seq + 1, student |-> id, mode |-> mode,
                          old |-> IF idx = 0 THEN NoRecord ELSE mockAttendance[idx],
                          response |-> apiCall(r)]

\* the directory as loaded: an embedding is a number, 0 for none; the
\* embeddings registered beforehand are the negative numbers
initialStudents ==
    [id \in StudentIds |->
        IF id \in Students
        THEN [faceRegistered |-> TRUE, faceDescriptor |-> 0 - id, status |-> "active"]
        ELSE [faceRegistered |-> FALSE, faceDescriptor |-> 0, status |-> "active"]]

\* mockStudents.filter(s => s.faceRegistered && s.faceDescriptor)
studentsWithFaces(ms) ==
    {id \in DOMAIN ms : ms[id].faceRegistered /\ ms[id].faceDescriptor # 0}

----------------------------------------------------------------------------
(* Timing constants of the program *)

TickMs == 200
CountdownMs == 500
ApiDelayMs == 300
SettleMs == 2000
CooldownMs == 8000

\* how long one detectAllFaces call takes
DetectDurations == {0, 250}

----------------------------------------------------------------------------
(* AttendancePage: one record per instance (screen visit) *)

Unknown == 0
Labels == Students \cup {Unknown}

RECURSIVE SeqsUpTo(_, _)
SeqsUpTo(S, n) ==
    IF n = 0 THEN {<< >>}
    ELSE LET shorter == SeqsUpTo(S, n - 1)
         IN  shorter \cup {Append(q, x) : q \in shorter, x \in S}

\* what one detection returns: the matcher's label of each detected face
Frames == SeqsUpTo(Labels, MaxFaces)
\* the frames of the long scenario: at most one face, student 1 or unknown
FramesOneFace == SeqsUpTo({Unknown, 1}, 1)

\* useRef / useState initial values of AttendancePage
NewVisit(mode) ==
    [mode |-> mode, mounted |-> TRUE, pc |-> "camera",
     faceMatcher |-> FALSE, interval |-> 0, detecting |-> {},
     isProcessing |-> FALSE, cooldown |-> [s \in Students |-> 0], timers |-> {},
     status |-> "detecting", currentStudent |-> 0,
     recentActivities |-> << >>, countToday |-> 0,
     stream |-> "none", srcObject |-> FALSE]

\* a state setter called on an unmounted component changes nothing
setStatus(v, type) == IF v.mounted THEN [v EXCEPT !.status = type] ELSE v
setCurrentStudent(v, id) == IF v.mounted THEN [v EXCEPT !.currentStudent = id] ELSE v

\* an unmounted instance with no timer, interval, detection or start-up step
\* outstanding is referenced by nothing any more
Collected(v) ==
    /\ ~v.mounted
    /\ v.timers = {} /\ v.detecting = {} /\ v.interval = 0
    /\ v.pc \in {"ready", "error"}

\* what is left of such an instance: the camera stream it acquired
Dead(v) == [NewVisit("checkin") EXCEPT !.mounted = FALSE, !.pc = "error",
                                       !.stream = v.stream]

Collect(vs) == [i \in DOMAIN vs |-> IF Collected(vs[i]) THEN Dead(vs[i]) ELSE vs[i]]

Min(S) == CHOOSE x \in S : \A y \in S : x <= y

VisitDeadlines(v) ==
    {t.at : t \in v.timers} \cup {d.at : d \in v.detecting}
        \cup (IF v.interval # 0 THEN {v.interval} ELSE {})

Deadlines == UNION {VisitDeadlines(visits[i]) : i \in DOMAIN visits}

\* a timeout or a detection is outstanding (the interval timers apart)
Busy == \E i \in DOMAIN visits : visits[i].timers # {} \/ visits[i].detecting # {}

AnyMounted == \E i \in DOMAIN visits : visits[i].mounted

----------------------------------------------------------------------------
(* The recognition loop's handling of one detected face *)

\* mutant: the cooldown test written with >=
cooldownElapsedAtBoundary(last, t) == last = 0 \/ t - last >= CooldownMs

\* now - recognitionCooldownRef.current[key] > 8000, or no entry yet
cooldownElapsed(last, t) == last = 0 \/ t - last > CooldownMs

\* mutant: no test of the guard, every recognition arms a countdown
startFastAttendanceNoGuard(acc, vid, id) ==
    [acc EXCEPT
            !.visit.isProcessing = TRUE,
            !.visit.timers = @ \cup {[kind |-> "countdown", at |-> now + CountdownMs,
                                      student |-> id, lock |-> Len(acc.locks) + 1]},
            !.locks = Append(@, [visit |-> vid, student |-> id, at |-> now,
                                 invoked |-> 0, invokedFor |-> 0, invokedAt |-> 0])]

\* startFastAttendance(student): acc is [visit, locks]
startFastAttendance(acc, vid, id) ==
    IF acc.visit.isProcessing THEN acc
    ELSE [acc EXCEPT
            !.visit.isProcessing = TRUE,
            !.visit.timers = @ \cup {[kind |-> "countdown", at |-> now + CountdownMs,
                                      student |-> id, lock |-> Len(acc.locks) + 1]},
            !.locks = Append(@, [visit |-> vid, student |-> id, at |-> now,
                                 invoked |-> 0, invokedFor |-> 0, invokedAt |-> 0])]

\* the body of the for loop over resizedDetections, for one detection
handleFace(acc, vid, label) ==
    LET v == acc.visit
    IN  IF label # Unknown
        THEN IF cooldownElapsed(v.cooldown[label], now)
             THEN LET v1 == [v EXCEPT !.cooldown[label] = now]
                      v2 == setStatus(setCurrentStudent(v1, label), "recognized")
                      a1 == startFastAttendance([acc EXCEPT !.visit = v2], vid, label)
                  IN  [a1 EXCEPT !.recog = Append(@,
                          [visit |-> vid, student |-> label, at |-> now,
                           last |-> v.cooldown[label], guard |-> v.isProcessing,
                           started |-> a1.visit.timers # v.timers])]
             ELSE [acc EXCEPT !.recog = Append(@,
                          [visit |-> vid, student |-> label, at |-> now,
                           last |-> v.cooldown[label], guard |-> v.isProcessing,
                           started |-> FALSE])]
        ELSE IF ~v.isProcessing
             THEN [acc EXCEPT !.visit = setCurrentStudent(setStatus(v, "ready"), 0)]
             ELSE acc

RECURSIVE handleFaces(_, _, _)
handleFaces(acc, vid, faces) ==
    IF faces = << >> THEN acc
    ELSE handleFaces(handleFace(acc, vid, Head(faces)), vid, Tail(faces))

\* mutant: the branch for no face resets the display without testing the guard
handleDetectionsClearsAlways(acc, vid, faces) ==
    IF Len(faces) > 0 THEN handleFaces(acc, vid, faces)
    ELSE [acc EXCEPT !.visit = setCurrentStudent(setStatus(acc.visit, "ready"), 0)]

\* the tick after its await: resizedDetections.length > 0 or not
handleDetections(acc, vid, faces) ==
    IF Len(faces) > 0 THEN handleFaces(acc, vid, faces)
    ELSE IF ~acc.visit.isProcessing
         THEN [acc EXCEPT !.visit = setCurrentStudent(setStatus(acc.visit, "ready"), 0)]
         ELSE acc

----------------------------------------------------------------------------
(* Actions of AttendancePage *)

\* FaceRegistrationPage before it is opened (and its useState initial values)
NoReg ==
    [mounted |-> FALSE, pc |-> "none", interval |-> FALSE, detecting |-> {},
     sampled |-> 0, done |-> 0, status |-> "detecting",
     faceDescriptor |-> 0, showCaptureButton |-> FALSE, selectedStudent |-> 0,
     last |-> [n |-> 0, w |-> 0, h |-> 0, cw |-> 0, ch |-> 0, frame |-> 0],
     pageStudent |-> 0, pending |-> << >>, clicks |-> 0,
     stream |-> "none", srcObject |-> FALSE]

storeVars == <<wall, mockAttendance, mockSettings, mockStudents, nextStudentId, lastCommit>>

\* the operator opens the check-in or check-out screen: useEffect runs startSystem
Mount(mode, faceapi) ==
    /\ Len(visits) < scen.maxVisits
    /\ ~AnyMounted
    /\ ~reg.mounted
    /\ visits' = Append(visits,
            IF faceapi THEN NewVisit(mode)
            ELSE [NewVisit(mode) EXCEPT !.pc = "error", !.status = "error"])
    /\ UNCHANGED <<now, storeVars, hist, scen, reg>>

\* await navigator.mediaDevices.getUserMedia resolves or rejects
GetUserMediaDone(i, ok) ==
    /\ visits[i].pc = "camera"
    /\ visits' = Collect([visits EXCEPT ![i] =
            IF ok THEN [setStatus(@, "detecting") EXCEPT
                            !.pc = "models", !.stream = "live",
                            !.srcObject = visits[i].mounted]
            ELSE [setStatus(@, "error") EXCEPT !.pc = "error"]])
    /\ UNCHANGED <<now, storeVars, hist, scen, reg>>

\* mutant: a failed model load shows the error and start-up goes on
LoadModelsDoneGoesOn(i, ok) ==
    /\ visits[i].pc = "models"
    /\ visits' = Collect([visits EXCEPT ![i] =
            [setStatus(@, IF ok THEN "detecting" ELSE "error") EXCEPT
                !.pc = IF ok THEN "faceData" ELSE "error",
                !.timers = @ \cup {[kind |-> "faceData", at |-> now + ApiDelayMs,
                                    student |-> 0, lock |-> 0]}]])
    /\ UNCHANGED <<now, storeVars, hist, scen, reg>>

\* await Promise.all of the three loadFromUri calls; then apiCall for the face data
LoadModelsDone(i, ok) ==
    /\ visits[i].pc = "models"
    /\ visits' = Collect([visits EXCEPT ![i] =
            IF ok
            THEN [setStatus(@, "detecting") EXCEPT
                    !.pc = "faceData",
                    !.timers = @ \cup {[kind |-> "faceData", at |-> now + ApiDelayMs,
                                        student |-> 0, lock |-> 0]}]
            ELSE [setStatus(@, "error") EXCEPT !.pc = "error"]])
    /\ UNCHANGED <<now, storeVars, hist, scen, reg>>

\* the face data arrives: build the matcher, startDetectionLoop
FaceDataFire(i) ==
    \E t \in visits[i].timers :
        /\ t.kind = "faceData" /\ t.at = now
        /\ visits' = Collect([visits EXCEPT ![i] =
                [setStatus(@, "ready") EXCEPT
                    !.pc = "ready", !.timers = @ \ {t},
                    !.faceMatcher = (studentsWithFaces(mockStudents) # {}),
                    !.interval = now + TickMs]])
        /\ UNCHANGED <<now, storeVars, hist, scen, reg>>

\* the first line of the interval callback
tickGuard(v, paused) ==
    v.mounted /\ ~paused /\ ~v.isProcessing /\ v.faceMatcher

\* the interval callback up to its await
TickFire(i, paused, d) ==
    /\ visits[i].interval = now
    /\ visits' = Collect([visits EXCEPT ![i] =
            IF tickGuard(@, paused)
            THEN [@ EXCEPT !.interval = now + TickMs,
                           !.detecting = @ \cup {[at |-> now + d, started |-> now]}]
            ELSE [@ EXCEPT !.interval = now + TickMs]])
    /\ UNCHANGED <<now, storeVars, hist, scen, reg>>

\* the interval callback after its await
DetectDone(i, faces) ==
    \E d \in visits[i].detecting :
        /\ d.at = now
        /\ faces # << >> => hist.frames < scen.maxFrames
        /\ LET acc0 == [visit |-> [visits[i] EXCEPT !.detecting = @ \ {d}],
                        locks |-> hist.locks, recog |-> << >>]
               acc  == handleDetections(acc0, i, faces)
           IN  /\ visits' = Collect([visits EXCEPT ![i] = acc.visit])
               /\ hist' = [hist EXCEPT !.locks = acc.locks, !.recog = acc.recog,
                                       !.frames = IF faces # << >> THEN @ + 1 ELSE @]
        /\ UNCHANGED <<now, storeVars, scen, reg>>

\* mutant: the countdown armed as a repeating timer, so it is not used up
executeAttendanceRepeats(v, t) ==
    [setStatus(v, "processing") EXCEPT
        !.timers = @ \cup {[kind |-> "apiCall", at |-> now + ApiDelayMs,
                            student |-> t.student, lock |-> t.lock]}]

\* the countdown timer: executeAttendance up to its await
executeAttendance(v, t) ==
    [setStatus(v, "processing") EXCEPT
        !.timers = (@ \ {t}) \cup {[kind |-> "apiCall", at |-> now + ApiDelayMs,
                                     student |-> t.student, lock |-> t.lock]}]

CountdownFire(i) ==
    \E t \in visits[i].timers :
        /\ t.kind = "countdown" /\ t.at = now
        /\ visits' = Collect([visits EXCEPT ![i] = executeAttendance(@, t)])
        /\ hist' = [hist EXCEPT !.locks[t.lock].invoked = @ + 1,
                                !.locks[t.lock].invokedFor = t.student,
                                !.locks[t.lock].invokedAt = now]
        /\ UNCHANGED <<now, storeVars, scen, reg>>

\* mutant: the feed cut with slice(0, 8)
pushActivityKeepsEight(prev, a) == <<a>> \o SubSeq(prev, 1, IF Len(prev) < 8 THEN Len(prev) ELSE 8)

\* setRecentActivities(prev => [newActivity, ...prev.slice(0, 7)])
pushActivity(prev, a) == <<a>> \o SubSeq(prev, 1, IF Len(prev) < 7 THEN Len(prev) ELSE 7)

\* mutant: a failed commit surfaces as an exception out of executeAttendance
handleResultThrows(v, t, result) ==
    IF result.success
    THEN [v EXCEPT !.timers = (@ \ {t}) \cup {[kind |-> "settle", at |-> now + SettleMs,
                                               student |-> t.student, lock |-> t.lock]},
                   !.status = IF v.mounted THEN "success" ELSE @]
    ELSE [v EXCEPT !.timers = @ \ {t}]

\* executeAttendance after its await
handleResult(v, t, result) ==
    LET shown ==
            IF ~v.mounted THEN v
            ELSE IF result.success
            THEN [v EXCEPT !.recentActivities =
                               pushActivity(@, [student |-> t.student,
                                                time |-> result.data.time,
                                                status |-> result.data.status]),
                           !.countToday = @ + 1,
                           !.status = "success"]
            ELSE [v EXCEPT !.status = "error"]
    IN  [shown EXCEPT !.timers = (@ \ {t}) \cup {[kind |-> "settle", at |-> now + SettleMs,
                                                  student |-> t.student, lock |-> t.lock]}]

\* the apiCall timer: recordAttendance runs, the promise resolves
ApiCommitFire(i) ==
    \E t \in visits[i].timers :
        /\ t.kind = "apiCall" /\ t.at = now
        /\ RunRecordAttendance(t.student, visits[i].mode)
        /\ visits' = Collect([visits EXCEPT ![i] =
                        handleResult(@, t, lastCommit'.response)])
        /\ UNCHANGED <<now, wall, mockSettings, mockStudents, nextStudentId, hist, scen, reg>>

\* mutant: the settle timer resets the display and leaves the guard set
SettleFireKeepsGuard(i) ==
    \E t \in visits[i].timers :
        /\ t.kind = "settle" /\ t.at = now
        /\ visits' = Collect([visits EXCEPT ![i] =
                [setStatus(setCurrentStudent(@, 0), "ready") EXCEPT !.timers = @ \ {t}]])
        /\ UNCHANGED <<now, storeVars, hist, scen, reg>>

\* the settle timer
SettleFire(i) ==
    \E t \in visits[i].timers :
        /\ t.kind = "settle" /\ t.at = now
        /\ visits' = Collect([visits EXCEPT ![i] =
                [setStatus(setCurrentStudent(@, 0), "ready") EXCEPT
                    !.isProcessing = FALSE, !.timers = @ \ {t}]])
        /\ UNCHANGED <<now, storeVars, hist, scen, reg>>

\* the cleanup of the effect; the component's state is discarded with it.
\* ref: videoRef.current is still the video element when the cleanup runs
\* (React detaches the refs of an unmounted tree before it runs the cleanups
\* of passive effects, or after, depending on its version)
cleanup(v, ref) ==
    [v EXCEPT !.mounted = FALSE,
              !.interval = IF v.interval # 0 THEN 0 ELSE @,
              !.stream = IF ref /\ v.srcObject THEN "stopped" ELSE @,
              !.status = "detecting", !.currentStudent = 0,
              !.recentActivities = << >>, !.countToday = 0]

\* the operator leaves the screen
Unmount(i, ref) ==
    /\ visits[i].mounted
    /\ visits' = Collect([visits EXCEPT ![i] = cleanup(@, ref)])
    /\ UNCHANGED <<now, storeVars, hist, scen, reg>>

\* a camera request or model load that has not settled yet
Starting == \E i \in DOMAIN visits : visits[i].pc \in {"camera", "models"}

\* time passes up to the next timer or completion that is due; the camera
\* request and the model loads settle before that
Advance ==
    /\ ~Starting
    /\ Deadlines # {}
    /\ hist.frames < scen.maxFrames \/ Busy
    /\ Min(Deadlines) > now
    /\ Min(Deadlines) <= scen.horizon
    /\ now' = Min(Deadlines)
    /\ UNCHANGED <<storeVars, visits, hist, scen, reg>>

NoMatch == [query |-> 0, label |-> 0, distance |-> 0]

\* threwAt: when a tick ended in an exception (0: none did)
NoHist == [locks |-> << >>, recog |-> << >>, frames |-> 0, match |-> NoMatch, threwAt |-> 0]

Init ==
    /\ now = 1
    /\ wall \in [date : {2, 3}, tod : {511}]
    /\ mockAttendance = initialAttendance
    /\ mockSettings = initialSettings
    /\ mockStudents = initialStudents
    /\ nextStudentId = MaxStudents + 1
    /\ lastCommit = NoCommit
    /\ visits = << >>
    /\ hist = NoHist
    /\ scen = [horizon |-> HorizonShort, maxVisits |-> 1, maxFrames |-> MaxFrames,
               frames |-> Frames, durations |-> DetectDurations]
    /\ reg = NoReg

Next ==
    \/ \E mode \in Modes, faceapi \in BOOLEAN : Mount(mode, faceapi)
    \/ \E i \in DOMAIN visits, ok \in BOOLEAN : GetUserMediaDone(i, ok)
    \/ \E i \in DOMAIN visits, ok \in BOOLEAN : LoadModelsDone(i, ok)
    \/ \E i \in DOMAIN visits : FaceDataFire(i)
    \/ \E i \in DOMAIN visits, paused \in BOOLEAN, d \in scen.durations :
            TickFire(i, paused, d)
    \/ \E i \in DOMAIN visits, faces \in scen.frames : DetectDone(i, faces)
    \/ \E i \in DOMAIN visits : CountdownFire(i)
    \/ \E i \in DOMAIN visits : ApiCommitFire(i)
    \/ \E i \in DOMAIN visits : SettleFire(i)
    \/ \E i \in DOMAIN visits, ref \in BOOLEAN : Unmount(i, ref)
    \/ Advance

Spec == Init /\ [][Next]_vars

\* the operator leaves the screen and opens it again
InitRevisit ==
    /\ now = 1
    /\ wall \in [date : {2, 3}, tod : {511}]
    /\ mockAttendance = initialAttendance
    /\ mockSettings = initialSettings
    /\ mockStudents = initialStudents
    /\ nextStudentId = MaxStudents + 1
    /\ lastCommit = NoCommit
    /\ visits = << >>
    /\ hist = NoHist
    /\ scen = [horizon |-> HorizonRevisit, maxVisits |-> 2, maxFrames |-> MaxFrames,
               frames |-> SeqsUpTo(Labels, 1), durations |-> {0}]
    /\ reg = NoReg

SpecRevisit == InitRevisit /\ [][Next]_vars

\* one visit, followed for longer than the cooldown
InitCooldown ==
    /\ now = 1
    /\ wall \in [date : {3}, tod : {511}]
    /\ mockAttendance = initialAttendance
    /\ mockSettings = initialSettings
    /\ mockStudents = initialStudents
    /\ nextStudentId = MaxStudents + 1
    /\ lastCommit = NoCommit
    /\ visits = << >>
    /\ hist = NoHist
    /\ scen = [horizon |-> HorizonLong, maxVisits |-> 1, maxFrames |-> MaxFrames,
               frames |-> FramesOneFace, durations |-> DetectDurations]
    /\ reg = NoReg

SpecCooldown == InitCooldown /\ [][Next]_vars

\* mutant: a guard set around the detection and released at the end of the
\* tick without a finally
DetectThrowsGuardStuck(i, faces) ==
    /\ hist.threwAt = 0
    /\ \E d \in visits[i].detecting :
        /\ d.at = now
        /\ faces # << >> => hist.frames < scen.maxFrames
        /\ visits' = Collect([visits EXCEPT ![i].detecting = @ \ {d},
                                            ![i].isProcessing = TRUE])
        /\ hist' = [hist EXCEPT !.frames = IF faces # << >> THEN @ + 1 ELSE @,
                                !.threwAt = now]
    /\ UNCHANGED <<now, storeVars, scen, reg>>

\* the interval callback after its await, ending in an exception: the await
\* rejects (faces empty), or findBestMatch or the drawing throws after the
\* detections in faces have been handled.  The callback has no try: its
\* promise rejects and setInterval ignores it.
DetectThrows(i, faces) ==
    /\ hist.threwAt = 0
    /\ \E d \in visits[i].detecting :
        /\ d.at = now
        /\ faces # << >> => hist.frames < scen.maxFrames
        /\ LET acc0 == [visit |-> [visits[i] EXCEPT !.detecting = @ \ {d}],
                        locks |-> hist.locks, recog |-> << >>]
               acc  == handleFaces(acc0, i, faces)
           IN  /\ visits' = Collect([visits EXCEPT ![i] = acc.visit])
               /\ hist' = [hist EXCEPT !.locks = acc.locks, !.recog = acc.recog,
                                       !.frames = IF faces # << >> THEN @ + 1 ELSE @,
                                       !.threwAt = now]
    /\ UNCHANGED <<now, storeVars, scen, reg>>

NextThrows ==
    \/ Next
    \/ \E i \in DOMAIN visits, faces \in scen.frames : DetectThrows(i, faces)

\* what the browser does by itself: time passes, and the timers that are due
\* and the detections that have finished run
Scheduled ==
    \/ \E i \in DOMAIN visits : FaceDataFire(i)
    \/ \E i \in DOMAIN visits, paused \in BOOLEAN, d \in scen.durations :
            TickFire(i, paused, d)
    \/ \E i \in DOMAIN visits, faces \in scen.frames : DetectDone(i, faces)
    \/ \E i \in DOMAIN visits : CountdownFire(i)
    \/ \E i \in DOMAIN visits : ApiCommitFire(i)
    \/ \E i \in DOMAIN visits : SettleFire(i)
    \/ Advance

\* one visit with at most one face per frame, the browser never stopping
InitLive ==
    /\ now = 1
    /\ wall \in [date : {2, 3}, tod : {511}]
    /\ mockAttendance = initialAttendance
    /\ mockSettings = initialSettings
    /\ mockStudents = initialStudents
    /\ nextStudentId = MaxStudents + 1
    /\ lastCommit = NoCommit
    /\ visits = << >>
    /\ hist = NoHist
    /\ scen = [horizon |-> HorizonShort, maxVisits |-> 1, maxFrames |-> MaxFrames,
               frames |-> SeqsUpTo(Labels, 1), durations |-> {0}]
    /\ reg = NoReg

SpecLive == InitLive /\ [][Next]_vars /\ WF_vars(Scheduled)

\* the same visit, one of whose ticks may end in an exception
SpecThrows == InitLive /\ [][NextThrows]_vars

----------------------------------------------------------------------------
(* The recorder on its own: commits in any order, at any time of any day *)

\* a commit reaches the recorder (the apiCall timer of some executeAttendance)
Commit(id, mode) ==
    /\ lastCommit.seq < MaxCommits
    /\ RunRecordAttendance(id, mode)
    /\ UNCHANGED <<now, wall, mockSettings, mockStudents, nextStudentId, visits, hist, scen,
                   reg>>

\* the wall clock moves on, within the day or to the next day
WallAdvance(d, t) ==
    /\ \/ d = wall.date /\ t > wall.tod
       \/ d = wall.date + 1
    /\ wall' = [date |-> d, tod |-> t]
    /\ UNCHANGED <<now, mockAttendance, mockSettings, mockStudents, nextStudentId, lastCommit,
                   visits, hist, scen, reg>>

\* SettingsPage.handleSave
handleSave(late, out) ==
    /\ mockSettings' = [lateTime |-> TimeStr(late), checkOutTime |-> TimeStr(out)]
    /\ UNCHANGED <<now, wall, mockAttendance, mockStudents, nextStudentId, lastCommit, visits,
                   hist, scen, reg>>

\* SettingsPage.handleClearAttendance
handleClearAttendance ==
    /\ mockAttendance' = << >>
    /\ UNCHANGED <<now, wall, mockSettings, mockStudents, nextStudentId, lastCommit, visits,
                   hist, scen, reg>>

InitRecorder ==
    /\ now = 1
    /\ wall \in [date : {2}, tod : TimeSamples]
    /\ mockAttendance = initialAttendance
    /\ mockSettings = initialSettings
    /\ mockStudents = initialStudents
    /\ nextStudentId = MaxStudents + 1
    /\ lastCommit = NoCommit
    /\ visits = << >>
    /\ hist = NoHist
    /\ scen = [horizon |-> 0, maxVisits |-> 0, maxFrames |-> 0,
               frames |-> {}, durations |-> {}]
    /\ reg = NoReg

NextRecorder ==
    \/ \E id \in Students, mode \in Modes : Commit(id, mode)
    \/ \E d \in Dates, t \in TimeSamples : WallAdvance(d, t)
    \/ \E late \in LateTimes, out \in CheckOutTimes : handleSave(late, out)
    \/ handleClearAttendance

SpecRecorder == InitRecorder /\ [][NextRecorder]_vars

----------------------------------------------------------------------------
(* The feed of one long session.  Only the results of its commits are       *)
(* followed: the time between them (settle delay, the ticks up to the next  *)
(* lock, its countdown) is left out.                                        *)

\* commits of the session
MaxFeedCommits == 10

\* the session at the await of executeAttendance(student): guard set by the
\* lock, "processing" shown, the timer of apiCall due
atAwait(v, id) ==
    [setStatus(setCurrentStudent(v, id), "processing") EXCEPT
        !.isProcessing = TRUE,
        !.timers = {[kind |-> "apiCall", at |-> now, student |-> id, lock |-> 0]}]

\* the next commit of the session reaches its await
AwaitResult(id) ==
    /\ lastCommit.seq < MaxFeedCommits
    /\ \A t \in visits[1].timers : t.kind = "settle"
    /\ visits' = [visits EXCEPT ![1] = atAwait(@, id)]
    /\ UNCHANGED <<now, storeVars, hist, scen, reg>>

\* an open, started screen whose first commit is at its await
InitFeed ==
    /\ now = 1
    /\ wall \in [date : {2, 3}, tod : {511}]
    /\ mockAttendance = initialAttendance
    /\ mockSettings = initialSettings
    /\ mockStudents = initialStudents
    /\ nextStudentId = MaxStudents + 1
    /\ lastCommit = NoCommit
    /\ \E mode \in Modes, id \in Students :
          visits = << atAwait([NewVisit(mode) EXCEPT
                                  !.pc = "ready", !.faceMatcher = TRUE,
                                  !.interval = now + TickMs,
                                  !.stream = "live", !.srcObject = TRUE], id) >>
    /\ hist = NoHist
    /\ scen = [horizon |-> 0, maxVisits |-> 1, maxFrames |-> 0,
               frames |-> {}, durations |-> {}]
    /\ reg = NoReg

NextFeed ==
    \/ \E id \in Students : AwaitResult(id)
    \/ \E i \in DOMAIN visits : ApiCommitFire(i)
    \/ handleClearAttendance

SpecFeed == InitFeed /\ [][NextFeed]_vars

----------------------------------------------------------------------------
(* The student directory under the operations that write it.  Each is the  *)
(* callback handed to apiCall, run when its timer fires, with what its      *)
(* closure holds: a student of the list as it was when the operator acted.  *)

\* students added in a run
MaxAdded == 1

\* mutant: the update builds the record from the form and the flag
saveStudentActionRebuilds(ms, next, student, status) ==
    IF student # 0
    THEN IF student \in DOMAIN ms
         THEN [ms |-> [ms EXCEPT ![student] =
                          [faceRegistered |-> ms[student].faceRegistered,
                           faceDescriptor |-> 0, status |-> status]],
               next |-> next]
         ELSE [ms |-> ms, next |-> next]
    ELSE [ms |-> [id \in DOMAIN ms \cup {next} |->
                     IF id = next
                     THEN [faceRegistered |-> FALSE, faceDescriptor |-> 0, status |-> status]
                     ELSE ms[id]],
          next |-> next + 1]

\* StudentModal saveStudentAction; student is 0 for a new student.
\* Update: { ...mockStudents[index], ...formData }, the form having no face
\* field.  Add: { ...formData, id: nextStudentId++, faceRegistered: false }.
saveStudentAction(ms, next, student, status) ==
    IF student # 0
    THEN IF student \in DOMAIN ms
         THEN [ms |-> [ms EXCEPT ![student].status = status], next |-> next]
         ELSE [ms |-> ms, next |-> next]
    ELSE [ms |-> [id \in DOMAIN ms \cup {next} |->
                     IF id = next
                     THEN [faceRegistered |-> FALSE, faceDescriptor |-> 0, status |-> status]
                     ELSE ms[id]],
          next |-> next + 1]

\* handleCaptureFace registerAction: the student found by id gets the flag and the embedding
registerAction(ms, id, descriptor) ==
    IF id \in DOMAIN ms
    THEN [ms EXCEPT ![id].faceRegistered = TRUE, ![id].faceDescriptor = descriptor]
    ELSE ms

\* handleDeleteStudent deleteAction: mockStudents.filter(s => s.id !== student.id)
deleteStudentAction(ms, id) == [i \in DOMAIN ms \ {id} |-> ms[i]]

\* handleDeleteFace deleteAction
deleteFaceAction(ms, id) ==
    IF id \in DOMAIN ms
    THEN [ms EXCEPT ![id].faceRegistered = FALSE, ![id].faceDescriptor = 0]
    ELSE ms

\* the students there have been so far
EverListed == 1..(nextStudentId - 1)

SaveStudentDone(student, status) ==
    /\ student = 0 => nextStudentId <= MaxStudents + MaxAdded
    /\ student # 0 => student \in EverListed
    /\ mockStudents' = saveStudentAction(mockStudents, nextStudentId, student, status).ms
    /\ nextStudentId' = saveStudentAction(mockStudents, nextStudentId, student, status).next
    /\ UNCHANGED <<now, wall, mockAttendance, mockSettings, lastCommit, visits, hist, scen, reg>>

DeleteStudentDone(id) ==
    /\ id \in EverListed
    /\ mockStudents' = deleteStudentAction(mockStudents, id)
    /\ UNCHANGED <<now, wall, mockAttendance, mockSettings, nextStudentId, lastCommit, visits,
                   hist, scen, reg>>

\* handleCaptureFace returns before apiCall unless an embedding is stored
CaptureFaceDone(id, descriptor) ==
    /\ id \in EverListed
    /\ mockStudents' = registerAction(mockStudents, id, descriptor)
    /\ UNCHANGED <<now, wall, mockAttendance, mockSettings, nextStudentId, lastCommit, visits,
                   hist, scen, reg>>

DeleteFaceDone(id) ==
    /\ id \in EverListed
    /\ mockStudents' = deleteFaceAction(mockStudents, id)
    /\ UNCHANGED <<now, wall, mockAttendance, mockSettings, nextStudentId, lastCommit, visits,
                   hist, scen, reg>>

InitDirectory ==
    /\ now = 1
    /\ wall = [date |-> 2, tod |-> 511]
    /\ mockAttendance = initialAttendance
    /\ mockSettings = initialSettings
    /\ mockStudents = initialStudents
    /\ nextStudentId = MaxStudents + 1
    /\ lastCommit = NoCommit
    /\ visits = << >>
    /\ hist = NoHist
    /\ scen = [horizon |-> 0, maxVisits |-> 0, maxFrames |-> 0,
               frames |-> {}, durations |-> {}]
    /\ reg = NoReg

NextDirectory ==
    \/ \E student \in 0..(MaxStudents + MaxAdded), status \in {"active", "inactive"} :
            SaveStudentDone(student, status)
    \/ \E id \in 1..(MaxStudents + MaxAdded) : DeleteStudentDone(id)
    \/ \E id \in 1..(MaxStudents + MaxAdded), descriptor \in {10, 30} :
            CaptureFaceDone(id, descriptor)
    \/ \E id \in 1..(MaxStudents + MaxAdded) : DeleteFaceDone(id)

SpecDirectory == InitDirectory /\ [][NextDirectory]_vars

----------------------------------------------------------------------------
(* The face matcher.  An embedding is a point of a line here and the        *)
(* distance of two embeddings their difference, in hundredths.              *)

ThresholdPct == 50

\* embeddings registered in the directory, and embeddings of detected faces
EmbeddingSamples == {10, 30, 90}
QuerySamples == {10, 60, 80, 81, 150}

Distance(a, b) == IF a < b THEN b - a ELSE a - b

\* mutant: the matcher built without its threshold argument (the library's default)
buildMatcherDefault(ms) ==
    [labeled |-> [id \in studentsWithFaces(ms) |-> ms[id].faceDescriptor],
     distanceThreshold |-> 60]

\* new faceapi.FaceMatcher(labeledDescriptors, 0.5): one embedding per label
buildMatcher(ms) ==
    [labeled |-> [id \in studentsWithFaces(ms) |-> ms[id].faceDescriptor],
     distanceThreshold |-> ThresholdPct]

\* match: the closest label (the first of the closest ones) if its distance
\* is within the threshold, else unknown
findBestMatch(matcher, query) ==
    LET ids  == DOMAIN matcher.labeled
        dist(id) == Distance(matcher.labeled[id], query)
        best == CHOOSE id \in ids :
                    \A o \in ids : dist(id) < dist(o) \/ (dist(id) = dist(o) /\ id <= o)
    IN  IF dist(best) <= matcher.distanceThreshold
        THEN [label |-> best, distance |-> dist(best)]
        ELSE [label |-> Unknown, distance |-> dist(best)]

\* one detection of the loop is matched (the loop runs only with a matcher,
\* which is built only for a non-empty directory of faces)
Match(query) ==
    /\ studentsWithFaces(mockStudents) # {}
    /\ hist' = [hist EXCEPT !.match =
                  [query |-> query,
                   label |-> findBestMatch(buildMatcher(mockStudents), query).label,
                   distance |-> findBestMatch(buildMatcher(mockStudents), query).distance]]
    /\ UNCHANGED <<now, storeVars, visits, scen, reg>>

\* any directory: each student with one of the embeddings or with none
Directories ==
    [StudentIds -> {[faceRegistered |-> FALSE, faceDescriptor |-> 0, status |-> "active"]}
                   \cup [faceRegistered : {TRUE}, faceDescriptor : EmbeddingSamples,
                         status : {"active"}]]

InitMatcher ==
    /\ now = 1
    /\ wall = [date |-> 2, tod |-> 511]
    /\ mockAttendance = initialAttendance
    /\ mockSettings = initialSettings
    /\ mockStudents \in Directories
    /\ nextStudentId = MaxStudents + 1
    /\ lastCommit = NoCommit
    /\ visits = << >>
    /\ hist = NoHist
    /\ scen = [horizon |-> 0, maxVisits |-> 0, maxFrames |-> 0,
               frames |-> {}, durations |-> {}]
    /\ reg = NoReg

NextMatcher == \E query \in QuerySamples : Match(query)

SpecMatcher == InitMatcher /\ [][NextMatcher]_vars

----------------------------------------------------------------------------
(* FaceRegistrationPage: the registration quality gate *)

RatioMinPct == 5
RatioMaxPct == 40

\* the detected boxes, for a video displayed 10 by 10: 0.05 of the frame, a
\* quarter of it, 0.4 of it and 0.64 of it
Boxes == {[w |-> 1, h |-> 5], [w |-> 5, h |-> 5], [w |-> 5, h |-> 8], [w |-> 8, h |-> 8]}
DisplaySizes == {[cw |-> 10, ch |-> 10]}

\* what one detection returns here: the box of each detected face; the
\* gate reads no box of a frame with several faces, so those all have one size
GateFrames ==
    SeqsUpTo(Boxes, 1) \cup {[k \in 1..n |-> [w |-> 5, h |-> 5]] : n \in 2..MaxFaces}

\* students the operator picks in the list: one registered, one not
ListedStudents == {1, 3}
faceRegistered(id) == mockStudents[id].faceRegistered

\* mutant: the bounds of the ratio test included
qualityOkInclusive(w, h, cw, ch) ==
    100 * (w * h) >= RatioMinPct * (cw * ch) /\ 100 * (w * h) <= RatioMaxPct * (cw * ch)

\* faceSizeRatio > 0.05 && faceSizeRatio < 0.4, for the ratio (w*h)/(cw*ch)
qualityOk(w, h, cw, ch) ==
    100 * (w * h) > RatioMinPct * (cw * ch) /\ 100 * (w * h) < RatioMaxPct * (cw * ch)

\* the state setters of the page do nothing once it is unmounted
setGate(r, status, descriptor, show) ==
    IF r.mounted
    THEN [r EXCEPT !.status = status, !.faceDescriptor = descriptor,
                   !.showCaptureButton = show]
    ELSE r

\* the interval callback after its await, for the frame sampled as number k
gateResult(r, k, faces, size) ==
    IF Len(faces) = 1
    THEN IF qualityOk(faces[1].w, faces[1].h, size.cw, size.ch)
         THEN setGate(r, "detected", k, TRUE)
         ELSE setGate(r, "no-face", 0, FALSE)
    ELSE setGate(r, "no-face", 0, FALSE)

\* the apiCall timers of the page fire in the order they were armed (all
\* have the same delay): reg.pending is that queue
fetchStudents == [kind |-> "fetch", student |-> 0, descriptor |-> 0]

\* the operator opens the registration screen (with or without a student
\* passed from the student list): fetchStudents and startCamera
RegMount(pageStudent) ==
    /\ reg.pc = "none"
    /\ ~AnyMounted
    /\ reg' = [NoReg EXCEPT !.mounted = TRUE, !.pc = "models",
                            !.pageStudent = pageStudent,
                            !.pending = <<fetchStudents>>]
    /\ UNCHANGED <<now, storeVars, visits, hist, scen>>

\* await loadModels()
RegLoadModelsDone(ok) ==
    /\ reg.pc = "models"
    /\ reg' = IF ok THEN [reg EXCEPT !.pc = "camera"]
              ELSE [reg EXCEPT !.pc = "error",
                               !.status = IF reg.mounted THEN "error" ELSE @]
    /\ UNCHANGED <<now, storeVars, visits, hist, scen>>

\* await getUserMedia; then startFaceDetection
RegGetUserMediaDone(ok) ==
    /\ reg.pc = "camera"
    /\ reg' = IF ok
              THEN [reg EXCEPT !.pc = "ready", !.interval = TRUE,
                               !.stream = "live", !.srcObject = reg.mounted,
                               !.status = IF reg.mounted THEN "ready" ELSE @]
              ELSE [reg EXCEPT !.pc = "error",
                               !.status = IF reg.mounted THEN "error" ELSE @]
    /\ UNCHANGED <<now, storeVars, visits, hist, scen>>

\* the interval callback up to its await
RegTick(paused) ==
    /\ reg.interval
    /\ reg.sampled < MaxRegFrames
    /\ reg' = IF reg.mounted /\ ~paused
              THEN [reg EXCEPT !.sampled = @ + 1, !.detecting = @ \cup {reg.sampled + 1}]
              ELSE reg
    /\ reg' # reg
    /\ UNCHANGED <<now, storeVars, visits, hist, scen>>

\* the interval callback after its await
RegDetectDone(k, faces, size) ==
    /\ k \in reg.detecting
    /\ reg' = [gateResult(reg, k, faces, size) EXCEPT
                 !.detecting = @ \ {k},
                 !.done = @ + 1,
                 !.last = [n |-> Len(faces),
                           w |-> IF Len(faces) = 1 THEN faces[1].w ELSE 0,
                           h |-> IF Len(faces) = 1 THEN faces[1].h ELSE 0,
                           cw |-> size.cw, ch |-> size.ch, frame |-> k]]
    /\ UNCHANGED <<now, storeVars, visits, hist, scen>>

\* the operator picks a student in the list
handleSelectStudent(id, confirm) ==
    /\ reg.mounted
    /\ faceRegistered(id) => confirm
    /\ reg' = [reg EXCEPT !.selectedStudent = id]
    /\ UNCHANGED <<now, storeVars, visits, hist, scen>>

\* the capture button is rendered
captureShown == reg.showCaptureButton /\ reg.selectedStudent # 0

\* handleCaptureFace up to its await: the student and the embedding of the
\* render the button belongs to go into the registerAction closure
handleCaptureFace ==
    /\ reg.mounted
    /\ captureShown
    /\ reg.clicks < MaxCaptures
    /\ reg.selectedStudent # 0 /\ reg.faceDescriptor # 0
    /\ reg' = [reg EXCEPT !.clicks = @ + 1,
                          !.pending = Append(@, [kind |-> "capture",
                                                 student |-> reg.selectedStudent,
                                                 descriptor |-> reg.faceDescriptor])]
    /\ UNCHANGED <<now, storeVars, visits, hist, scen>>

\* the apiCall timer of handleCaptureFace fires: registerAction, then the
\* gate is reset and the list fetched again
RegCaptureDone ==
    /\ reg.pending # << >>
    /\ Head(reg.pending).kind = "capture"
    /\ mockStudents' = registerAction(mockStudents, Head(reg.pending).student,
                                      Head(reg.pending).descriptor)
    /\ reg' = [(IF reg.mounted
                THEN [reg EXCEPT !.selectedStudent = 0, !.showCaptureButton = FALSE,
                                 !.faceDescriptor = 0]
                ELSE reg)
               EXCEPT !.pending = Append(Tail(@), fetchStudents)]
    /\ UNCHANGED <<now, wall, mockAttendance, mockSettings, nextStudentId, lastCommit, visits,
                   hist, scen>>

\* the apiCall timer of fetchStudents fires: the list is set, and the student
\* passed to the page is selected if no face is registered for them
RegFetchDone ==
    /\ reg.pending # << >>
    /\ Head(reg.pending).kind = "fetch"
    /\ reg' = [reg EXCEPT
                 !.pending = Tail(@),
                 !.selectedStudent =
                     IF reg.mounted /\ reg.pageStudent # 0 /\ ~faceRegistered(reg.pageStudent)
                     THEN reg.pageStudent ELSE @]
    /\ UNCHANGED <<now, storeVars, visits, hist, scen>>

\* stopCamera, and the component's state is discarded
stopCamera(r, ref) ==
    [r EXCEPT !.mounted = FALSE, !.interval = FALSE, !.status = "detecting",
              !.stream = IF ref /\ r.srcObject THEN "stopped" ELSE @,
              !.srcObject = IF ref THEN FALSE ELSE @,
              !.faceDescriptor = 0, !.showCaptureButton = FALSE, !.selectedStudent = 0]

\* the operator leaves the registration screen
RegUnmount(ref) ==
    /\ reg.mounted
    /\ reg' = stopCamera(reg, ref)
    /\ UNCHANGED <<now, storeVars, visits, hist, scen>>

InitGate ==
    /\ now = 1
    /\ wall = [date |-> 2, tod |-> 511]
    /\ mockAttendance = initialAttendance
    /\ mockSettings = initialSettings
    /\ mockStudents = initialStudents
    /\ nextStudentId = MaxStudents + 1
    /\ lastCommit = NoCommit
    /\ visits = << >>
    /\ hist = NoHist
    /\ scen = [horizon |-> 0, maxVisits |-> 0, maxFrames |-> 0,
               frames |-> {}, durations |-> {}]
    /\ reg = NoReg

NextGate ==
    \/ \E pageStudent \in {0, 3} : RegMount(pageStudent)
    \/ \E ok \in BOOLEAN : RegLoadModelsDone(ok)
    \/ \E ok \in BOOLEAN : RegGetUserMediaDone(ok)
    \/ \E paused \in BOOLEAN : RegTick(paused)
    \/ \E k \in reg.detecting, faces \in GateFrames, size \in DisplaySizes :
            RegDetectDone(k, faces, size)
    \/ \E id \in ListedStudents, confirm \in BOOLEAN : handleSelectStudent(id, confirm)
    \/ handleCaptureFace
    \/ RegCaptureDone
    \/ RegFetchDone
    \/ \E ref \in BOOLEAN : RegUnmount(ref)

SpecGate == InitGate /\ [][NextGate]_vars

\* C10: a tick of the registration loop never enables capture unless it
\* detected exactly one face whose box covers more than 0.05 and less than 0.4
\* of the frame; a tick that did, on the open screen, always enables capture
\* and stores that face's embedding.
C10_QualityGate ==
    [][ reg'.done = reg.done + 1 =>
          LET t == reg'.last
              good == /\ t.n = 1
                      /\ 20 * (t.w * t.h) > t.cw * t.ch
                      /\ 5 * (t.w * t.h) < 2 * (t.cw * t.ch)
          IN  /\ ~good => (~reg'.showCaptureButton /\ reg'.faceDescriptor = 0)
              /\ (good /\ reg.mounted)
                    => (reg'.showCaptureButton /\ reg'.faceDescriptor = t.frame) ]_vars

\* a tick that detected a single face covering a quarter of the frame has
\* enabled the capture button for the selected student
C10_Witness ==
    /\ reg.mounted
    /\ reg.done > 0
    /\ reg.last.n = 1
    /\ 100 * (reg.last.w * reg.last.h) = 25 * (reg.last.cw * reg.last.ch)
    /\ captureShown
    /\ reg.faceDescriptor = reg.last.frame

\* C11: an embedding accepted by the registration gate is stored for at most
\* one student: no two students of the directory hold the same captured
\* embedding, whatever the order of selections, captures and ticks.
C11_EmbeddingForOneStudent ==
    \A a, b \in DOMAIN mockStudents :
        (/\ a # b
         /\ mockStudents[a].faceDescriptor > 0
         /\ mockStudents[b].faceDescriptor > 0)
        => mockStudents[a].faceDescriptor # mockStudents[b].faceDescriptor

----------------------------------------------------------------------------
(* Properties of the recorder (SpecRecorder) *)

\* the step is a run of recordAttendance
CommitStep == lastCommit'.seq = lastCommit.seq + 1

\* "HH:MM" as minutes of the day
ParseTime(str) == (str[1] * 10 + str[2]) * 60 + str[4] * 10 + str[5]

HasCheckIn(att, id, d) ==
    \E i \in DOMAIN att :
        att[i].student_id = id /\ att[i].date = d /\ att[i].checkIn # Null

HasCheckOut(att, id, d) ==
    \E i \in DOMAIN att :
        att[i].student_id = id /\ att[i].date = d /\ att[i].checkOut # Null

UniqueCheckIn(att) ==
    \A i, j \in DOMAIN att :
        (/\ att[i].student_id = att[j].student_id
         /\ att[i].date = att[j].date
         /\ att[i].checkIn # Null /\ att[j].checkIn # Null) => i = j

Rejected(resp, why) == ~resp.success /\ resp.message # << >> /\ resp.message[1] = why

\* C1: the store never holds two records with a checkIn for one student and
\* date, and a check-in commit for a student who already has a record with a
\* checkIn for the current date is rejected as already checked in and leaves
\* the store as it was.
C1_AtMostOneCheckInPerDay ==
    [][ /\ UniqueCheckIn(mockAttendance) /\ UniqueCheckIn(mockAttendance')
        /\ (/\ CommitStep
            /\ lastCommit'.mode = "checkin"
            /\ HasCheckIn(mockAttendance, lastCommit'.student, wall.date))
           => (/\ Rejected(lastCommit'.response, "AlreadyCheckedIn")
               /\ mockAttendance' = mockAttendance) ]_vars

\* a second check-in of a student on a day whose record this run created
C1_Witness ==
    /\ lastCommit.mode = "checkin"
    /\ Rejected(lastCommit.response, "AlreadyCheckedIn")
    /\ lastCommit.old.date > 2
    /\ lastCommit.response.message[2] = lastCommit.old.checkIn
    /\ UniqueCheckIn(mockAttendance)

\* C5: a check-out commit for a student with no record for the current date
\* fails with the no-check-in-found error and leaves the store unchanged.
C5_CheckoutNeedsCheckin ==
    [][ (/\ CommitStep
         /\ lastCommit'.mode = "checkout"
         /\ findIndex(mockAttendance, lastCommit'.student, wall.date) = 0)
        => (/\ Rejected(lastCommit'.response, "NoCheckInFound")
            /\ mockAttendance' = mockAttendance) ]_vars

C5_Witness ==
    /\ lastCommit.mode = "checkout"
    /\ Rejected(lastCommit.response, "NoCheckInFound")
    /\ lastCommit.old = NoRecord
    /\ mockAttendance # << >>
    /\ findIndex(mockAttendance, lastCommit.student, wall.date) = 0

\* C6: a check-out of a record whose status is Late succeeds, writes the
\* current time into checkOut and leaves the stored status Late, whatever the
\* time of day.
C6_LateSurvivesCheckout ==
    [][ \A idx \in DOMAIN mockAttendance :
          (/\ CommitStep
           /\ lastCommit'.mode = "checkout"
           /\ idx = findIndex(mockAttendance, lastCommit'.student, wall.date)
           /\ mockAttendance[idx].status = "Late")
          => (/\ lastCommit'.response.success
              /\ mockAttendance'[idx].checkOut = TimeStr(wall.tod)
              /\ mockAttendance'[idx].status = "Late") ]_vars

\* a Late record checked out before checkOutTime
C6_Witness ==
    /\ lastCommit.mode = "checkout"
    /\ lastCommit.response.success
    /\ lastCommit.old.status = "Late"
    /\ lastCommit.response.data.status = "Early Leave"
    /\ \E i \in DOMAIN mockAttendance :
          /\ mockAttendance[i].student_id = lastCommit.student
          /\ mockAttendance[i].date = lastCommit.old.date
          /\ mockAttendance[i].checkOut = lastCommit.response.data.time
          /\ mockAttendance[i].status = "Late"

\* a commit in a direction in which the student's record for the current date
\* already shows a commit
PriorCommit(att, id, d, mode) ==
    \/ mode = "checkin" /\ HasCheckIn(att, id, d)
    \/ mode = "checkout" /\ HasCheckOut(att, id, d)

\* C7 as claimed: in either direction, a commit after an earlier commit in
\* that direction for the student and date is rejected and changes nothing.
C7_AsClaimed ==
    [][ (CommitStep /\ PriorCommit(mockAttendance, lastCommit'.student, wall.date,
                                   lastCommit'.mode))
        => (~lastCommit'.response.success /\ mockAttendance' = mockAttendance) ]_vars

\* C7 as amended: a repeated check-in is rejected and changes nothing; a
\* repeated check-out is not rejected: it succeeds, overwrites checkOut of the
\* same record with the current time, and changes no other record nor the
\* number of records.
C7_OncePerDayCheckInOnly ==
    [][ /\ (CommitStep /\ PriorCommit(mockAttendance, lastCommit'.student, wall.date,
                                      "checkin") /\ lastCommit'.mode = "checkin")
           => (~lastCommit'.response.success /\ mockAttendance' = mockAttendance)
        /\ (CommitStep /\ PriorCommit(mockAttendance, lastCommit'.student, wall.date,
                                      "checkout") /\ lastCommit'.mode = "checkout")
           => LET idx == findIndex(mockAttendance, lastCommit'.student, wall.date)
              IN  /\ lastCommit'.response.success
                  /\ Len(mockAttendance') = Len(mockAttendance)
                  /\ mockAttendance'[idx].checkOut = TimeStr(wall.tod)
                  /\ mockAttendance'[idx].checkIn = mockAttendance[idx].checkIn
                  /\ \A j \in DOMAIN mockAttendance :
                        j # idx => mockAttendance'[j] = mockAttendance[j] ]_vars

\* a second check-out that replaced an earlier checkOut time
C7_Witness ==
    /\ lastCommit.mode = "checkout"
    /\ lastCommit.response.success
    /\ lastCommit.old.checkOut # Null
    /\ lastCommit.old.checkOut # lastCommit.response.data.time
    /\ \E i \in DOMAIN mockAttendance :
          /\ mockAttendance[i].student_id = lastCommit.student
          /\ mockAttendance[i].date = lastCommit.old.date
          /\ mockAttendance[i].checkOut = lastCommit.response.data.time

\* C8: a successful check-in puts one new record at the head of the store:
\* checkIn the current time, checkOut absent, status Late exactly when the
\* current minute of the day is after lateTime, otherwise Present.
C8_CheckinRecord ==
    [][ (CommitStep /\ lastCommit'.mode = "checkin" /\ lastCommit'.response.success)
        => (/\ Len(mockAttendance') = Len(mockAttendance) + 1
            /\ mockAttendance'[1] =
                  [student_id |-> lastCommit'.student, date |-> wall.date,
                   checkIn |-> TimeStr(wall.tod), checkOut |-> Null,
                   status |-> IF wall.tod > ParseTime(mockSettings.lateTime)
                              THEN "Late" ELSE "Present"]
            /\ \A j \in DOMAIN mockAttendance :
                  mockAttendance'[j + 1] = mockAttendance[j]) ]_vars

\* a check-in exactly at lateTime, recorded as Present
C8_Witness ==
    /\ lastCommit.mode = "checkin"
    /\ lastCommit.response.success
    /\ lastCommit.response.data.time = mockSettings.lateTime
    /\ mockAttendance # << >>
    /\ mockAttendance[1].student_id = lastCommit.student
    /\ mockAttendance[1].checkIn = mockSettings.lateTime
    /\ mockAttendance[1].checkOut = Null
    /\ mockAttendance[1].status = "Present"

\* C9: a successful check-out writes the current time into checkOut of the
\* day's record and, unless that record was Late, sets its status to Early
\* Leave when the current minute of the day is before checkOutTime and to
\* Present otherwise.
C9_CheckoutRecord ==
    [][ (CommitStep /\ lastCommit'.mode = "checkout" /\ lastCommit'.response.success)
        => LET idx == findIndex(mockAttendance, lastCommit'.student, wall.date)
           IN  /\ idx # 0
               /\ mockAttendance'[idx].checkOut = TimeStr(wall.tod)
               /\ mockAttendance[idx].status # "Late"
                  => mockAttendance'[idx].status =
                        (IF wall.tod < ParseTime(mockSettings.checkOutTime)
                         THEN "Early Leave" ELSE "Present") ]_vars

\* a record that was Early Leave, checked out again exactly at checkOutTime
C9_Witness ==
    /\ lastCommit.mode = "checkout"
    /\ lastCommit.response.success
    /\ lastCommit.old.status = "Early Leave"
    /\ lastCommit.response.data.time = mockSettings.checkOutTime
    /\ \E i \in DOMAIN mockAttendance :
          /\ mockAttendance[i].student_id = lastCommit.student
          /\ mockAttendance[i].date = lastCommit.old.date
          /\ mockAttendance[i].checkOut = mockSettings.checkOutTime
          /\ mockAttendance[i].status = "Present"

----------------------------------------------------------------------------
(* Properties of the recognition session *)

\* the commit attempts in their pending delay or executing, over all visits
InFlight ==
    UNION { { <<i, t>> : t \in {u \in visits[i].timers :
                                  u.kind \in {"countdown", "apiCall"}} } :
            i \in DOMAIN visits }

\* C2: at most one commit attempt, pending or executing, is in flight over
\* all visits of the screen.
C2_SingleCommitInFlight == Cardinality(InFlight) <= 1

\* C3: a recognition of a student CooldownMs or less after that student's
\* last trigger in the session starts no commit attempt, with the processing
\* guard set or not; so two locks of one student in one session are more than
\* CooldownMs apart.
C3_CooldownSuppresses ==
    /\ \A k \in DOMAIN hist.recog :
          (hist.recog[k].last # 0 /\ hist.recog[k].at - hist.recog[k].last <= CooldownMs)
          => ~hist.recog[k].started
    /\ \A a, b \in DOMAIN hist.locks :
          (/\ a < b
           /\ hist.locks[a].visit = hist.locks[b].visit
           /\ hist.locks[a].student = hist.locks[b].student)
          => hist.locks[b].at - hist.locks[a].at > CooldownMs

\* a recognition exactly CooldownMs after the trigger, guard clear, no commit
C3_Witness ==
    \E k \in DOMAIN hist.recog :
        /\ hist.recog[k].last # 0
        /\ hist.recog[k].at - hist.recog[k].last = CooldownMs
        /\ ~hist.recog[k].guard
        /\ ~hist.recog[k].started
        /\ \A i \in DOMAIN visits : visits[i].timers = {}

\* C4: each lock is followed by exactly one call of executeAttendance, for
\* the locked student, CountdownMs after the lock: never a second call, and
\* never none once the delay is over.
C4_OneCommitPerLock ==
    \A k \in DOMAIN hist.locks :
        LET l == hist.locks[k]
        IN  /\ l.invoked <= 1
            /\ l.invoked = 1 => (l.invokedFor = l.student /\ l.invokedAt = l.at + CountdownMs)
            /\ now > l.at + CountdownMs => l.invoked = 1

\* a lock whose commit has been invoked, the delay being over
C4_Witness ==
    \E k \in DOMAIN hist.locks :
        /\ hist.locks[k].invoked = 1
        /\ now > hist.locks[k].at + CountdownMs
        /\ lastCommit.seq > 0
        /\ lastCommit.student = hist.locks[k].student

\* C12: a commit in its pending delay when the operator leaves the screen is
\* never invoked: the countdown of a visit that has been left does not call
\* executeAttendance.
C12_PendingCommitCancelled ==
    [][ \A i \in DOMAIN visits :
          \A t \in visits[i].timers :
              (~visits[i].mounted /\ t.kind = "countdown")
              => hist'.locks[t.lock].invoked = hist.locks[t.lock].invoked ]_vars

\* C13: once the operator has left the attendance or the registration
\* screen and the camera request of that visit has settled, no stream that
\* the visit acquired is still running.
C13_StreamsStopped ==
    /\ \A i \in DOMAIN visits :
          (~visits[i].mounted /\ visits[i].pc # "camera") => visits[i].stream # "live"
    /\ (~reg.mounted /\ reg.pc \in {"ready", "error"}) => reg.stream # "live"

\* C14: a commit that fails (already checked in, or no check-in found on
\* check-out) comes back as a failure result with a message; the screen, if
\* still open, shows the error status, and the session goes on: its loop
\* keeps its timer and the settle delay is armed.
C14_FailuresAreResults ==
    [][ (CommitStep /\ ~lastCommit'.response.success) =>
          /\ \/ Rejected(lastCommit'.response, "AlreadyCheckedIn")
             \/ Rejected(lastCommit'.response, "NoCheckInFound")
          /\ \A i \in DOMAIN visits :
                visits'[i].timers # visits[i].timers =>
                  /\ visits[i].mounted =>
                        (visits'[i].status = "error" /\ visits'[i].interval = visits[i].interval
                         /\ visits'[i].interval # 0)
                  /\ \E t \in visits'[i].timers :
                        t.kind = "settle" /\ t.at = now + SettleMs ]_vars

\* after a rejected commit the open screen is back in the ready state with
\* the guard released and the loop running
C14_Witness ==
    /\ lastCommit.seq > 0
    /\ ~lastCommit.response.success
    /\ \E i \in DOMAIN visits :
          /\ visits[i].mounted
          /\ visits[i].status = "ready"
          /\ ~visits[i].isProcessing
          /\ visits[i].timers = {}
          /\ visits[i].interval # 0
          /\ \E k \in DOMAIN hist.locks : hist.locks[k].visit = i /\ hist.locks[k].invoked = 1

\* a visit whose start-up failed, the screen still open
InError(i) == visits[i].mounted /\ visits[i].pc = "error"

\* C15: a visit whose start-up failed shows the error status and stays in the
\* error state as long as the screen is open: its detection loop is never
\* started, it locks no candidate and arms no timer, so it attempts no
\* commit, and nothing starts it up again.
C15_ErrorIsTerminal ==
    /\ [](\A i \in DOMAIN visits :
            InError(i) =>
              /\ visits[i].status = "error"
              /\ visits[i].interval = 0 /\ visits[i].detecting = {}
              /\ visits[i].timers = {} /\ ~visits[i].isProcessing
              /\ \A k \in DOMAIN hist.locks : hist.locks[k].visit # i)
    /\ [][ \A i \in DOMAIN visits :
              InError(i) => (visits'[i].pc = "error" /\ visits'[i].timers = {}
                             /\ visits'[i].interval = 0) ]_vars

\* the models failed to load after the camera had started
C15_Witness ==
    \E i \in DOMAIN visits :
        InError(i) /\ visits[i].status = "error" /\ visits[i].stream = "live"

\* C16: the matcher answers unknown whenever every registered embedding is
\* farther than 0.5 from the query, however many are registered; when it
\* answers a student, that student is registered, is nearest to the query
\* and is no farther than 0.5 from it.
C16_MatcherThreshold ==
    LET m == hist.match
        registered == {id \in StudentIds : mockStudents[id].faceRegistered}
        d(id) == IF mockStudents[id].faceDescriptor < m.query
                 THEN m.query - mockStudents[id].faceDescriptor
                 ELSE mockStudents[id].faceDescriptor - m.query
    IN  m.query # 0 =>
          /\ (\A id \in registered : d(id) > 50) => m.label = 0
          /\ m.label # 0 =>
                /\ m.label \in registered
                /\ d(m.label) <= 50
                /\ \A id \in registered : d(m.label) <= d(id)

\* three registered embeddings, the nearest just beyond the threshold: unknown
C16_Witness ==
    /\ hist.match.query # 0
    /\ hist.match.label = 0
    /\ hist.match.distance = 51
    /\ Cardinality({id \in StudentIds : mockStudents[id].faceRegistered}) = 3

\* C17: in the recognition loop and in the registration loop at most one
\* detection call is outstanding at any time.
C17_OneDetectionAtATime ==
    /\ \A i \in DOMAIN visits : Cardinality(visits[i].detecting) <= 1
    /\ Cardinality(reg.detecting) <= 1

\* the commit attempt of lock k is under way, the lock being early enough
\* for its countdown, apiCall and settle delay to fall within the time the
\* scenario covers,
\* and one of its timers is pending
LockedInTime(k) ==
    /\ k \in DOMAIN hist.locks
    /\ hist.locks[k].at + CountdownMs + ApiDelayMs + SettleMs <= scen.horizon
    /\ \E t \in visits[hist.locks[k].visit].timers : t.lock = k

\* the visit of lock k has its guard released and, if still open, shows ready
Released(k) ==
    /\ k \in DOMAIN hist.locks
    /\ ~visits[hist.locks[k].visit].isProcessing
    /\ visits[hist.locks[k].visit].mounted
          => (visits[hist.locks[k].visit].status = "ready"
              /\ visits[hist.locks[k].visit].currentStudent = 0)

\* C18: every commit attempt, successful or not, is eventually followed by
\* the release of the processing guard and the return to the ready state.
C18_GuardReleased ==
    \A k \in 1..MaxFrames : LockedInTime(k) ~> Released(k)

\* after the settle delay of a first commit, a second student is locked in
\* the same visit
C18_Witness ==
    \E a, b \in DOMAIN hist.locks :
        /\ a < b
        /\ hist.locks[a].visit = hist.locks[b].visit
        /\ hist.locks[b].at >= hist.locks[a].at + CountdownMs + ApiDelayMs + SettleMs
        /\ lastCommit.seq > 0

\* C19: an exception that ends a tick does not stall recognition.  The tick
\* that throws sets the guard only by locking a candidate, whose countdown is
\* then armed, and leaves the loop's timer and the matcher of the open
\* screen alone; and at any
\* time after it a guard that is set has a timer pending that leads to its
\* release, and the loop of the open, started screen has its timer armed.
C19_ExceptionDoesNotStall ==
    /\ [][ (hist.threwAt = 0 /\ hist'.threwAt # 0) =>
              \A i \in DOMAIN visits :
                  /\ visits[i].mounted =>
                        /\ visits'[i].interval = visits[i].interval
                        /\ visits'[i].faceMatcher = visits[i].faceMatcher
                  /\ (visits'[i].isProcessing /\ ~visits[i].isProcessing)
                        => \E t \in visits'[i].timers :
                              t.kind = "countdown" /\ t.at = now + CountdownMs ]_vars
    /\ [](hist.threwAt # 0 =>
            \A i \in DOMAIN visits :
                /\ visits[i].isProcessing => visits[i].timers # {}
                /\ (visits[i].mounted /\ visits[i].pc = "ready") => visits[i].interval > now
                                                                   \/ visits[i].interval = now)

\* a tick threw, and a later tick recognised a student whose commit was
\* invoked and answered
C19_Witness ==
    /\ hist.threwAt # 0
    /\ lastCommit.seq > 0
    /\ \E k \in DOMAIN hist.locks :
          /\ hist.locks[k].at > hist.threwAt
          /\ hist.locks[k].invoked = 1
          /\ lastCommit.student = hist.locks[k].student

\* C20: once the operator has left the screen, no tick of that visit has an
\* effect: none locks a candidate, starts a countdown or sets a cooldown.
C20_NoTickEffectAfterLeave ==
    [][ \A i \in DOMAIN visits :
          ~visits[i].mounted =>
            /\ \A k \in DOMAIN hist'.locks :
                  hist'.locks[k].visit = i => k \in DOMAIN hist.locks
            /\ \A t \in visits'[i].timers :
                  t.kind = "countdown" => t \in visits[i].timers
            /\ \A s \in Students :
                  visits'[i].cooldown[s] \in {visits[i].cooldown[s], 0} ]_vars

\* C21: a face recognised while the guard of its session is set (a commit
\* pending or executing) is dropped, not queued.  It arms no countdown, then
\* or later: a countdown is armed only in a step that starts with the guard
\* clear, by a recognition of that step, for the student recognised; so two
\* locks of one session are at least the whole commit (countdown, apiCall and
\* settle delay) apart, and no commit reaches the recorder without a lock.
C21_DroppedNotQueued ==
    /\ [](\A k \in DOMAIN hist.recog : hist.recog[k].guard => ~hist.recog[k].started)
    /\ [](\A a, b \in DOMAIN hist.locks :
            (a < b /\ hist.locks[a].visit = hist.locks[b].visit)
            => hist.locks[b].at >= hist.locks[a].at + CountdownMs + ApiDelayMs + SettleMs)
    /\ [](lastCommit.seq <= Len(hist.locks))
    /\ [][ \A i \in DOMAIN visits :
             \A t \in visits'[i].timers \ visits[i].timers :
                 t.kind = "countdown" =>
                   /\ ~visits[i].isProcessing
                   /\ Len(hist'.locks) = Len(hist.locks) + 1
                   /\ t.lock = Len(hist'.locks)
                   /\ \E k \in DOMAIN hist'.recog :
                         /\ hist'.recog[k].student = t.student
                         /\ hist'.recog[k].at = now
                         /\ ~hist'.recog[k].guard
                         /\ hist'.recog[k].started ]_vars

\* the second student of a frame was recognised with the guard set; the
\* commit of the first has been made and settled, the guard is released, and
\* nothing is pending for the second
C21_Witness ==
    /\ \E k \in DOMAIN hist.recog :
          /\ hist.recog[k].guard /\ ~hist.recog[k].started
          /\ lastCommit.seq = 1
          /\ lastCommit.student # hist.recog[k].student
    /\ Len(hist.locks) = 1
    /\ \A i \in DOMAIN visits :
          visits[i].mounted /\ ~visits[i].isProcessing /\ visits[i].timers = {}

\* the tick of visit i over a playing video that goes on to call detectAllFaces
TickDetects(i) ==
    \E d \in scen.durations :
        /\ TickFire(i, FALSE, d)
        /\ visits'[i].detecting # visits[i].detecting

\* C22: while a commit is pending or executing (the guard set), the ticks of
\* the open screen still run detection (and with it redraw the overlay): a
\* tick that is due over a playing video calls detectAllFaces.
C22_TicksDetectWhilePending ==
    \A i \in DOMAIN visits :
        (/\ visits[i].mounted /\ visits[i].faceMatcher
         /\ visits[i].isProcessing /\ visits[i].interval = now)
        => ENABLED TickDetects(i)

\* a detection of visit i completes in this step and no face of it is recognised
NothingRecognised(i) ==
    /\ visits'[i].detecting # visits[i].detecting
    /\ visits'[i].detecting \subseteq visits[i].detecting
    /\ hist'.recog = << >>

\* C23: a tick whose detection finds no face, or only faces the matcher
\* calls unknown, locks no candidate, arms no timer, changes no cooldown
\* timestamp and leaves the attendance store alone; on the open screen it
\* shows the ready status with no candidate when the guard is clear, and
\* leaves the display alone when the guard is set.
C23_NothingRecognised ==
    [][ \A i \in DOMAIN visits :
          NothingRecognised(i) =>
            /\ hist'.locks = hist.locks
            /\ visits'[i].timers = visits[i].timers
            /\ mockAttendance' = mockAttendance /\ lastCommit' = lastCommit
            /\ visits[i].mounted =>
                  /\ visits'[i].cooldown = visits[i].cooldown
                  /\ visits'[i].isProcessing = visits[i].isProcessing
                  /\ ~visits[i].isProcessing =>
                        (visits'[i].status = "ready" /\ visits'[i].currentStudent = 0)
                  /\ visits[i].isProcessing =>
                        (/\ visits'[i].status = visits[i].status
                         /\ visits'[i].currentStudent = visits[i].currentStudent) ]_vars

\* a frame with faces has been handled, none of them recognised: nothing is
\* locked, no cooldown is stamped and the open screen shows ready
C23_Witness ==
    /\ hist.frames >= 1 /\ hist.recog = << >> /\ hist.locks = << >>
    /\ lastCommit.seq = 0
    /\ \E i \in DOMAIN visits :
          /\ visits[i].mounted /\ visits[i].pc = "ready" /\ visits[i].detecting = {}
          /\ visits[i].status = "ready" /\ visits[i].currentStudent = 0
          /\ \A s \in Students : visits[i].cooldown[s] = 0
          /\ visits[i].timers = {}

\* C24: the attendance store changes only in these ways.  It grows only by a
\* successful check-in, by the one record that check-in puts at the head.
\* A record changes only by a successful check-out, which changes checkOut
\* and status of the record of that student and date and nothing else: not
\* checkIn, student or date, no other record, not the number of records.
\* It shrinks only by the bulk clear, which is no commit and empties it.
\* A failed commit leaves it as it was.
C24_AttendanceFrame ==
    [][ /\ Len(mockAttendance') > Len(mockAttendance) =>
              /\ CommitStep /\ lastCommit'.mode = "checkin" /\ lastCommit'.response.success
              /\ Tail(mockAttendance') = mockAttendance
              /\ mockAttendance'[1].student_id = lastCommit'.student
        /\ (Len(mockAttendance') = Len(mockAttendance) /\ mockAttendance' # mockAttendance) =>
              /\ CommitStep /\ lastCommit'.mode = "checkout" /\ lastCommit'.response.success
              /\ LET idx == findIndex(mockAttendance, lastCommit'.student, wall.date)
                 IN  /\ idx # 0
                     /\ mockAttendance'[idx].student_id = mockAttendance[idx].student_id
                     /\ mockAttendance'[idx].date = mockAttendance[idx].date
                     /\ mockAttendance'[idx].checkIn = mockAttendance[idx].checkIn
                     /\ \A j \in DOMAIN mockAttendance :
                           j # idx => mockAttendance'[j] = mockAttendance[j]
        /\ Len(mockAttendance') < Len(mockAttendance) =>
              (~CommitStep /\ mockAttendance' = << >>)
        /\ (CommitStep /\ ~lastCommit'.response.success) =>
              mockAttendance' = mockAttendance ]_vars

\* a record made by a check-in of the session and then changed by a
\* check-out, the store having been emptied before
C24_Witness ==
    /\ Len(mockAttendance) = 1
    /\ lastCommit.mode = "checkout" /\ lastCommit.response.success
    /\ lastCommit.old.checkOut = Null
    /\ mockAttendance[1].student_id = lastCommit.student
    /\ mockAttendance[1].checkOut # Null
    /\ mockAttendance[1].checkIn = lastCommit.old.checkIn

\* C25: the feed of a session never holds more than 8 entries, and holds
\* one entry for each successful commit of the session up to 8.  A
\* successful commit puts its entry (student, time and status returned) at
\* the head, moves the others down one place, drops the last when there were
\* 8, and adds one to the session counter; a failed commit leaves the feed
\* and the counter as they were; nothing else changes them.
C25_FeedBounded ==
    /\ [](\A i \in DOMAIN visits :
            /\ Len(visits[i].recentActivities) <= 8
            /\ visits[i].mounted =>
                  Len(visits[i].recentActivities) =
                      (IF visits[i].countToday < 8 THEN visits[i].countToday ELSE 8))
    /\ [][ \A i \in DOMAIN visits :
             LET old == visits[i].recentActivities
                 new == visits'[i].recentActivities
             IN  visits'[i].mounted =>
                   IF CommitStep /\ visits'[i].timers # visits[i].timers
                   THEN IF lastCommit'.response.success
                        THEN /\ new[1] = [student |-> lastCommit'.student,
                                          time |-> lastCommit'.response.data.time,
                                          status |-> lastCommit'.response.data.status]
                             /\ Len(new) = (IF Len(old) < 8 THEN Len(old) + 1 ELSE 8)
                             /\ \A k \in 2..Len(new) : new[k] = old[k - 1]
                             /\ visits'[i].countToday = visits[i].countToday + 1
                        ELSE /\ new = old
                             /\ visits'[i].countToday = visits[i].countToday
                   ELSE /\ new = old
                        /\ visits'[i].countToday = visits[i].countToday ]_vars

\* nine commits of the session succeeded, the feed holds the last eight of
\* them, and the tenth commit failed
C25_Witness ==
    /\ lastCommit.seq = 10 /\ ~lastCommit.response.success
    /\ \E i \in DOMAIN visits :
          /\ visits[i].mounted
          /\ visits[i].countToday = 9
          /\ Len(visits[i].recentActivities) = 8
          /\ \E t \in visits[i].timers : t.kind = "settle"

\* C26: every student of the directory has an embedding exactly when its
\* faceRegistered flag is set, after any sequence of adding, editing and
\* deleting students and capturing and deleting faces.
C26_DescriptorIffRegistered ==
    \A id \in DOMAIN mockStudents :
        (mockStudents[id].faceDescriptor # 0) <=> mockStudents[id].faceRegistered

\* a student added and given a face and then edited, the face of student 1
\* deleted, student 2 deleted
C26_Witness ==
    /\ nextStudentId > MaxStudents + 1
    /\ MaxStudents + 1 \in DOMAIN mockStudents
    /\ mockStudents[MaxStudents + 1].faceRegistered
    /\ mockStudents[MaxStudents + 1].faceDescriptor = 30
    /\ mockStudents[MaxStudents + 1].status = "inactive"
    /\ 1 \in DOMAIN mockStudents
    /\ ~mockStudents[1].faceRegistered /\ mockStudents[1].faceDescriptor = 0
    /\ 2 \notin DOMAIN mockStudents

\* C27: the cooldown timestamp of a student is stamped only in a step that
\* schedules a commit for that student (arms its countdown); a recognition
\* whose commit is dropped at the guard leaves the timestamp as it was.
C27_CooldownOnlyWhenScheduled ==
    [][ \A i \in DOMAIN visits : \A s \in Students :
          (/\ visits'[i].cooldown[s] # visits[i].cooldown[s]
           /\ visits'[i].cooldown[s] = now)
          => \E t \in visits'[i].timers \ visits[i].timers :
                t.kind = "countdown" /\ t.student = s ]_vars

\* C28: while a commit of the open screen is pending or executing, the
\* student shown as the current candidate is the student being committed.
C28_CandidateIsCommitted ==
    \A i \in DOMAIN visits :
        visits[i].mounted =>
          \A t \in visits[i].timers :
              t.kind \in {"countdown", "apiCall"} => visits[i].currentStudent = t.student

\* C29: the status a successful commit returns (the status its feed entry
\* shows) is the status of that student's record of the day right after the
\* commit, for a check-in and for a check-out.
C29_ReturnedIsStored ==
    [][ (CommitStep /\ lastCommit'.response.success) =>
          LET idx == findIndex(mockAttendance', lastCommit'.student, wall.date)
          IN  /\ idx # 0
              /\ mockAttendance'[idx].status = lastCommit'.response.data.status ]_vars

\* C30: the gate of the open registration screen shows the result of the
\* newest frame whose detection has completed: no detection of a frame
\* sampled later than the one shown has completed.
C30_GateReflectsNewest ==
    (reg.mounted /\ reg.done > 0) =>
        \A k \in (1..reg.sampled) \ reg.detecting : k <= reg.last.frame

=============================================================================
